---------------------------- MODULE Spec2Model ----------------------------
(***************************************************************************)
(* A model of the two programs of the repository:                          *)
(*   src/pagerank.py            crawl, transition_model, sample_pagerank,  *)
(*                              iterate_pagerank                           *)
(*   src/tictactoe/tictactoe.py player, actions, result, winner, terminal, *)
(*                              utility, minimax_aux, minimax              *)
(*                                                                         *)
(* Numbers.  Python computes the probabilities in binary floating point.   *)
(* The model computes them in exact rational arithmetic: a rational is a   *)
(* pair <<numerator, denominator>> in lowest terms with a positive         *)
(* denominator.  The damping factor 0.85 is the rational 17/20 and the     *)
(* tolerance .001 is 1/1000.                                               *)
(***************************************************************************)
EXTENDS Integers, Sequences, FiniteSets, TLC

VARIABLES
    pc,             \* position of the running call: "start", a loop label, "done"
    outcome,        \* "none" while running; "returned" or the exception raised
    corpus,         \* pagerank: the corpus dictionary, page -> set of linked pages
    damping_factor, \* pagerank: the damping factor, a rational
    page,           \* transition_model's argument; sample_pagerank's current page
    dist,           \* transition_model: the returned dictionary
    n,              \* sample_pagerank: the number of samples
    i,              \* sample_pagerank: the loop counter
    ranks,          \* sample_pagerank / iterate_pagerank: the ranks dictionary
    directory,      \* crawl: the directory, file name -> links found in the file
    pages,          \* crawl: the pages dictionary
    board,          \* tictactoe: the board, a 3 x 3 grid of "X", "O" or EMPTY
    called,         \* tictactoe: the board as it was when minimax was called
    move            \* tictactoe: the move minimax returned

vars == <<pc, outcome, corpus, damping_factor, page, dist, n, i, ranks,
          directory, pages, board, called, move>>

(***************************************************************************)
(* Bounds of the model.                                                    *)
(***************************************************************************)
\* transition_model is applied to every corpus of at most MaxPages pages.
MaxPages == 3
\* sample_pagerank walks every corpus of at most MaxWalkPages pages ...
MaxWalkPages == 3
\* ... with every sample count from -1 to MaxSamples.
MaxSamples == 3
\* iterate_pagerank runs on every corpus of at most MaxIterPages pages.
MaxIterPages == 3
\* crawl reads every directory of at most MaxFiles HTML files.
MaxFiles == 3

(***************************************************************************)
(* Exact rational arithmetic, standing for Python's float operators.       *)
(***************************************************************************)
Abs(x) == IF x < 0 THEN -x ELSE x

\* Recursive functions, which TLC applies to values: an operand is computed once.
GcdOf[a \in Nat, b \in Nat] == IF b = 0 THEN a ELSE GcdOf[b, a % b]

Gcd(a, b) == GcdOf[a, b]

\* The rational num/den in lowest terms, den # 0.
Q(num, den) ==
    LET g == Gcd(Abs(num), Abs(den))
        s == IF den < 0 THEN -1 ELSE 1
    IN  <<(s * num) \div g, (s * den) \div g>>

QInt(k) == <<k, 1>>
QAdd(a, b) == Q(a[1] * b[2] + b[1] * a[2], a[2] * b[2])
QSub(a, b) == Q(a[1] * b[2] - b[1] * a[2], a[2] * b[2])
QMul(a, b) == Q(a[1] * b[1], a[2] * b[2])
\* a / b for b # 0; every division of the program is guarded where it is used.
QDiv(a, b) == Q(a[1] * b[2], a[2] * b[1])
QLess(a, b) == a[1] * b[2] < b[1] * a[2]
QLeq(a, b) == a[1] * b[2] <= b[1] * a[2]

\* The sum of the values of a dictionary of rationals.
RECURSIVE QSum(_, _)
QSum(f, S) ==
    IF S = {} THEN QInt(0)
    ELSE LET x == CHOOSE y \in S : TRUE
         IN  QAdd(f[x], QSum(f, S \ {x}))

(***************************************************************************)
(* The inputs of the pagerank functions.                                   *)
(***************************************************************************)
PageNames == <<"A", "B", "C", "D", "E", "F">>

PagesUpTo(k) == {PageNames[j] : j \in 1..k}

\* The corpora crawl can return with exactly k pages: every page is linked
\* to pages of the corpus other than itself.
CorporaOf(k) ==
    [PagesUpTo(k) -> SUBSET PagesUpTo(k)] \cap
    {c \in [PagesUpTo(k) -> SUBSET PagesUpTo(k)] : \A p \in PagesUpTo(k) : p \notin c[p]}

Corpora(max) == UNION {CorporaOf(k) : k \in 0..max}

\* DAMPING = 0.85
DAMPING == <<17, 20>>

ValidDampings == {<<1, 2>>, DAMPING}
\* Damping factors outside the open interval (0, 1).
InvalidDampings == {<<0, 1>>, <<1, 1>>, <<3, 2>>, <<-1, 2>>}

ValidDamping(d) == QLess(QInt(0), d) /\ QLess(d, QInt(1))

(***************************************************************************)
(* transition_model(corpus, page, damping_factor)                          *)
(***************************************************************************)
\* linkedPagesProb = damping_factor / len(corpus[page])
linkedPagesProb(c, p, d) == QDiv(d, QInt(Cardinality(c[p])))

\* A slip: the teleport share divided among the linked pages only.
allPagesProbOverLinks(c, p, d) == QDiv(QSub(QInt(1), d), QInt(Cardinality(c[p])))

\* allPagesProb = (1 - damping_factor) / len(corpus.keys())
allPagesProb(c, p, d) == QDiv(QSub(QInt(1), d), QInt(Cardinality(DOMAIN c)))

transition_model(c, p, d) ==
    IF Cardinality(c[p]) = 0
    THEN [x \in DOMAIN c |-> QDiv(QInt(1), QInt(Cardinality(DOMAIN c)))]
    ELSE [x \in DOMAIN c |->
            IF x \in c[p]
            THEN QAdd(linkedPagesProb(c, p, d), allPagesProb(c, p, d))
            ELSE allPagesProb(c, p, d)]

\* The variables a pagerank call does not use.
IdleCrawl == directory = <<>> /\ pages = <<>>
IdleGame == board = <<>> /\ called = <<>> /\ move = <<>>
IdleWalk == n = 0 /\ i = 0 /\ ranks = <<>>

InitTransition ==
    /\ pc = "start"
    /\ outcome = "none"
    /\ corpus \in Corpora(MaxPages)
    /\ damping_factor \in ValidDampings \cup InvalidDampings
    /\ page \in DOMAIN corpus
    /\ dist = <<>>
    /\ IdleWalk /\ IdleCrawl /\ IdleGame

\* One call of transition_model, from entry to return.
TransitionModel ==
    /\ pc = "start"
    /\ dist' = transition_model(corpus, page, damping_factor)
    /\ pc' = "done"
    /\ outcome' = "returned"
    /\ UNCHANGED <<corpus, damping_factor, page, n, i, ranks,
                   directory, pages, board, called, move>>

NextTransition == TransitionModel

SpecTransition == InitTransition /\ [][NextTransition]_vars

(***************************************************************************)
(* sample_pagerank(corpus, damping_factor, n)                              *)
(***************************************************************************)
IdleTransition == dist = <<>>

InitSample ==
    /\ pc = "start"
    /\ outcome = "none"
    /\ corpus \in Corpora(MaxWalkPages)
    /\ damping_factor \in ValidDampings \cup {<<1, 1>>, <<3, 2>>}
    /\ n \in -1..MaxSamples
    /\ page = "none"
    /\ i = 0
    /\ ranks = <<>>
    /\ IdleTransition /\ IdleCrawl /\ IdleGame

\* A slip: the visit is not counted.
RecordNothing(r, p) == r

\* ranks[page] += 1
RecordVisit(r, p) == [r EXCEPT ![p] = @ + 1]

\* The pages random.choices(pages, weights=p, k=1)[0] can return.  The
\* weights sum to 1, so the call does not raise.  With non-negative weights
\* it returns a page of positive weight.  A negative weight (a damping
\* factor outside [0, 1]) breaks the order of the cumulative weights the
\* call bisects, and the page it returns is then some page of the list.
Choices(model) ==
    IF \A x \in DOMAIN model : QLeq(QInt(0), model[x])
    THEN {x \in DOMAIN model : QLess(QInt(0), model[x])}
    ELSE DOMAIN model

\* Lines 88-97: the dictionaries are built and the first page is drawn with
\* random.randrange(len(pages)), which raises ValueError on an empty range.
SampleStart ==
    /\ pc = "start"
    /\ IF DOMAIN corpus = {}
       THEN /\ pc' = "done"
            /\ outcome' = "ValueError"
            /\ ranks' = [c \in DOMAIN corpus |-> 0]
            /\ UNCHANGED page
       ELSE \E first \in DOMAIN corpus :
            /\ page' = first
            /\ ranks' = RecordVisit([c \in DOMAIN corpus |-> 0], first)
            /\ pc' = "walk"
            /\ UNCHANGED outcome
    /\ i' = 0
    /\ UNCHANGED <<corpus, damping_factor, dist, n,
                   directory, pages, board, called, move>>

\* Lines 100-109: one iteration of the while loop.
SampleStep ==
    /\ pc = "walk"
    /\ i < n - 1
    /\ \E rand \in Choices(transition_model(corpus, page, damping_factor)) :
        /\ page' = rand
        /\ ranks' = RecordVisit(ranks, rand)
    /\ i' = i + 1
    /\ UNCHANGED <<pc, outcome, corpus, damping_factor, dist, n,
                   directory, pages, board, called, move>>

\* Lines 111-114: the loop has ended; every count is divided by n.
SampleFinish ==
    /\ pc = "walk"
    /\ ~(i < n - 1)
    /\ IF n = 0
       THEN /\ outcome' = "ZeroDivisionError"
            /\ UNCHANGED ranks
       ELSE /\ outcome' = "returned"
            /\ ranks' = [r \in DOMAIN ranks |-> QDiv(QInt(ranks[r]), QInt(n))]
    /\ pc' = "done"
    /\ UNCHANGED <<corpus, damping_factor, page, dist, n, i,
                   directory, pages, board, called, move>>

NextSample == SampleStart \/ SampleStep \/ SampleFinish

SpecSample == InitSample /\ [][NextSample]_vars


(***************************************************************************)
(* Exact arithmetic on large natural numbers.  After k passes of           *)
(* iterate_pagerank a rank is a rational whose denominator has grown k     *)
(* times, beyond the integers TLC computes with, so the ranks are kept as  *)
(* natural numbers of any size over one common denominator.  A natural     *)
(* number is the sequence of its digits in base Base, least significant    *)
(* first, without leading zeros; zero is the empty sequence.               *)
(***************************************************************************)
Base == 10 * 1000

BigNat == Seq(Nat)

\* The operations are recursive functions, which TLC applies to values: an
\* operand is computed once, however many digits of it are read.
Digit(a, k) == IF k <= Len(a) THEN a[k] ELSE 0

BigOfInt[k \in Nat] ==
    IF k = 0 THEN <<>> ELSE <<k % Base>> \o BigOfInt[k \div Base]

BigTrim[a \in BigNat] ==
    IF a # <<>> /\ a[Len(a)] = 0 THEN BigTrim[SubSeq(a, 1, Len(a) - 1)] ELSE a

BigAddFrom[a \in BigNat, b \in BigNat, k \in Nat, carry \in Nat] ==
    IF k > Len(a) /\ k > Len(b)
    THEN BigOfInt[carry]
    ELSE <<(Digit(a, k) + Digit(b, k) + carry) % Base>> \o
         BigAddFrom[a, b, k + 1, (Digit(a, k) + Digit(b, k) + carry) \div Base]

\* a + b
BigAdd(a, b) == BigAddFrom[a, b, 1, 0]

\* a - b for a >= b, digit by digit from digit k on.
BigSubFrom[a \in BigNat, b \in BigNat, k \in Nat, borrow \in Nat] ==
    IF k > Len(a)
    THEN <<>>
    ELSE IF Digit(a, k) - Digit(b, k) - borrow < 0
         THEN <<Digit(a, k) - Digit(b, k) - borrow + Base>> \o
              BigSubFrom[a, b, k + 1, 1]
         ELSE <<Digit(a, k) - Digit(b, k) - borrow>> \o
              BigSubFrom[a, b, k + 1, 0]

BigLessFrom[a \in BigNat, b \in BigNat, k \in Nat] ==
    IF k = 0 THEN FALSE
    ELSE IF a[k] # b[k] THEN a[k] < b[k]
    ELSE BigLessFrom[a, b, k - 1]

BigLessOf[a \in BigNat, b \in BigNat] ==
    IF Len(a) # Len(b) THEN Len(a) < Len(b) ELSE BigLessFrom[a, b, Len(a)]

\* a < b
BigLess(a, b) == BigLessOf[a, b]

BigAbsDiffOf[a \in BigNat, b \in BigNat] ==
    IF BigLessOf[a, b] THEN BigTrim[BigSubFrom[b, a, 1, 0]]
    ELSE BigTrim[BigSubFrom[a, b, 1, 0]]

\* abs(a - b)
BigAbsDiff(a, b) == BigAbsDiffOf[a, b]

BigTimesFrom[a \in BigNat, m \in Nat, k \in Nat, carry \in Nat] ==
    IF k > Len(a)
    THEN BigOfInt[carry]
    ELSE <<(a[k] * m + carry) % Base>> \o
         BigTimesFrom[a, m, k + 1, (a[k] * m + carry) \div Base]

\* a * m for a small natural number m
BigTimes(a, m) == IF m = 0 THEN <<>> ELSE BigTimesFrom[a, m, 1, 0]

\* The sum of the values of a dictionary of natural numbers.
BigSum(f, S) ==
    LET sumOver[T \in SUBSET S] ==
            IF T = {} THEN <<>>
            ELSE BigAdd(f[CHOOSE y \in T : TRUE],
                        sumOver[T \ {CHOOSE y \in T : TRUE}])
    IN  sumOver[S]

LcmOf[a \in Nat, b \in Nat] == (a * b) \div GcdOf[a, b]

Lcm(a, b) == LcmOf[a, b]

\* The least number every number of 1..k divides.
LcmUpTo[k \in Nat] == IF k <= 1 THEN 1 ELSE Lcm(k, LcmUpTo[k - 1])

(***************************************************************************)
(* iterate_pagerank(corpus, damping_factor)                                *)
(*                                                                         *)
(* The ranks dictionary is the record [num, den]: the rank of page p is    *)
(* num[p] / den.  A pass divides ranks by N and by the link counts, all    *)
(* of which divide Unit(corpus), and multiplies by the damping factor      *)
(* dn/dd, so the updated ranks are natural numbers over den * Unit * dd.   *)
(***************************************************************************)
Unit(c) == LcmUpTo[Cardinality(DOMAIN c)]

\* The value of a dictionary unchanged, over the denominator of the next pass.
Lifted(c, d, r) ==
    [num |-> [p \in DOMAIN c |-> BigTimes(r.num[p], d[2] * Unit(c))],
     den |-> BigTimes(r.den, d[2] * Unit(c))]

\* A slip: the rank of a page without links is not handed on.
contributionLinksOnly(c, r, mainPage, q) ==
    IF mainPage \in c[q]
    THEN BigTimes(r.num[q], Unit(c) \div Cardinality(c[q]))
    ELSE <<>>

\* A slip: the link is followed backwards.
contributionReversed(c, r, mainPage, q) ==
    IF Cardinality(c[q]) = 0
    THEN BigTimes(r.num[q], Unit(c) \div Cardinality(DOMAIN c))
    ELSE IF q \in c[mainPage]
    THEN BigTimes(r.num[q], Unit(c) \div Cardinality(c[q]))
    ELSE <<>>

\* Lines 135-138: what page q adds to the summatory of mainPage, over the
\* denominator r.den * Unit(c).
contribution(c, r, mainPage, q) ==
    IF Cardinality(c[q]) = 0
    THEN BigTimes(r.num[q], Unit(c) \div Cardinality(DOMAIN c))
    ELSE IF mainPage \in c[q]
    THEN BigTimes(r.num[q], Unit(c) \div Cardinality(c[q]))
    ELSE <<>>

\* Lines 133-138, over the denominator r.den * Unit(c).
summatory(c, r, mainPage) ==
    BigSum([q \in DOMAIN c |-> contribution(c, r, mainPage, q)], DOMAIN c)

\* Line 140: result = summatory * damping_factor + (1 - damping_factor) / N,
\* over the denominator r.den * Unit(c) * dd.
result_(c, d, r, mainPage) ==
    BigAdd(BigTimes(summatory(c, r, mainPage), d[1]),
           BigTimes(r.den, (d[2] - d[1]) * (Unit(c) \div Cardinality(DOMAIN c))))

\* Lines 131-141: the dictionary ranksUpdated, computed from ranks.
ranksUpdated(c, d, r) ==
    [num |-> [mainPage \in DOMAIN c |-> result_(c, d, r, mainPage)],
     den |-> BigTimes(r.den, d[2] * Unit(c))]

\* A slip: the tolerance is .01.
exceedsHundredth(a, b, den) == BigLess(den, BigTimes(BigAbsDiff(a, b), 100))

\* Line 145: abs(a/den - b/den) > .001
exceeds(a, b, den) == BigLess(den, BigTimes(BigAbsDiff(a, b), 1000))

\* Lines 143-147: the loop over the pages left to compare.  old is ranks as it
\* is when the loop reaches the page: line 147 makes ranks the dictionary
\* ranksUpdated itself, and from then on a page is compared with itself.
RECURSIVE hasBiggest(_, _, _, _)
hasBiggest(old, upd, left, found) ==
    IF left = {} THEN found
    ELSE LET p == CHOOSE x \in left : TRUE
         IN  IF exceeds(old.num[p], upd.num[p], upd.den)
             THEN hasBiggest(upd, upd, left \ {p}, TRUE)
             ELSE hasBiggest(old, upd, left \ {p}, found)

InitIterate ==
    /\ pc = "start"
    /\ outcome = "none"
    /\ corpus \in Corpora(MaxIterPages)
    /\ damping_factor \in ValidDampings
    /\ page = "none"
    /\ IdleWalk /\ IdleTransition /\ IdleCrawl /\ IdleGame

\* Lines 125-128: every rank is 1 / N.  No division happens for N = 0.
IterateStart ==
    /\ pc = "start"
    /\ ranks' = [num |-> [c \in DOMAIN corpus |-> BigOfInt[1]],
                 den |-> BigOfInt[Cardinality(DOMAIN corpus)]]
    /\ pc' = "loop"
    /\ UNCHANGED <<outcome, corpus, damping_factor, page, dist, n, i,
                   directory, pages, board, called, move>>

\* Lines 130-150: one pass of the while loop.
IteratePass ==
    /\ pc = "loop"
    /\ \E upd \in {ranksUpdated(corpus, damping_factor, ranks)},
          old \in {Lifted(corpus, damping_factor, ranks)} :
           IF hasBiggest(old, upd, DOMAIN corpus, FALSE)
           THEN /\ ranks' = upd
                /\ UNCHANGED <<pc, outcome>>
           ELSE /\ pc' = "done"
                /\ outcome' = "returned"
                /\ UNCHANGED ranks
    /\ UNCHANGED <<corpus, damping_factor, page, dist, n, i,
                   directory, pages, board, called, move>>

NextIterate == IterateStart \/ IteratePass

SpecIterate == InitIterate /\ [][NextIterate]_vars

\* The loop of iterate_pagerank has no suspension point: a pass that can run, runs.
SpecIterateFair == SpecIterate /\ WF_vars(NextIterate)


(***************************************************************************)
(* crawl(directory)                                                        *)
(*                                                                         *)
(* The directory is a dictionary from the names os.listdir returns to the  *)
(* set of the links re.findall finds in the file of that name.             *)
(***************************************************************************)
FileNames == <<"1.html", "2.html", "3.html", "4.html", "5.html", "6.html">>

HtmlUpTo(k) == {FileNames[j] : j \in 1..k}

\* A file of the directory that is not a page, and that pages may link to.
OtherFile == "notes.txt"

\* filename.endswith(".html")
EndsWithHtml(filename) == filename \in HtmlUpTo(Len(FileNames))

\* What a file may link to: the files that can be in the directory, itself
\* included, whether or not they are there.
LinkTargets == HtmlUpTo(MaxFiles) \cup {OtherFile}

\* The directory holds the first k HTML files, each with any links, and the
\* other file, which crawl does not open.
InitCrawl ==
    /\ pc = "start"
    /\ outcome = "none"
    /\ \E k \in 0..MaxFiles :
         \E html \in [HtmlUpTo(k) -> SUBSET LinkTargets] :
            directory = html @@ (OtherFile :> {"1.html"})
    /\ pages = <<>>
    /\ corpus = <<>> /\ damping_factor = <<0, 1>> /\ page = "none"
    /\ IdleWalk /\ IdleTransition /\ IdleGame

\* A slip: the link of a page to itself is kept.
ownLinksWithSelf(dir, filename) == dir[filename]

\* Line 39: set(links) - {filename}
ownLinks(dir, filename) == dir[filename] \ {filename}

\* Lines 30-39: the first loop, over the files of the directory.
CrawlRead ==
    /\ pc = "start"
    /\ pages' = [filename \in {f \in DOMAIN directory : EndsWithHtml(f)} |->
                    ownLinks(directory, filename)]
    /\ pc' = "filter"
    /\ UNCHANGED <<outcome, corpus, damping_factor, page, dist, n, i, ranks,
                   directory, board, called, move>>

\* Lines 42-48: the second loop, over the pages.  It assigns to keys the
\* dictionary already has, so the keys it tests links against do not change.
CrawlFilter ==
    /\ pc = "filter"
    /\ pages' = [filename \in DOMAIN pages |->
                    {link \in pages[filename] : link \in DOMAIN pages}]
    /\ pc' = "done"
    /\ outcome' = "returned"
    /\ UNCHANGED <<corpus, damping_factor, page, dist, n, i, ranks,
                   directory, board, called, move>>

NextCrawl == CrawlRead \/ CrawlFilter

SpecCrawl == InitCrawl /\ [][NextCrawl]_vars


(***************************************************************************)
(* tictactoe.py                                                            *)
(*                                                                         *)
(* A board is board[i][j] for i, j in 0..2.  result writes into the list   *)
(* it is given and returns that same list, so the board a function is left *)
(* with is part of what it returns: minimax_aux and minimax are modelled   *)
(* as returning their value together with the board as they leave it.      *)
(***************************************************************************)
X == "X"
O == "O"
EMPTY == "None"

Boards == [0..2 -> [0..2 -> {X, O, EMPTY}]]

\* The cells in the order of the two nested range loops.
Cells == <<<<0, 0>>, <<0, 1>>, <<0, 2>>,
           <<1, 0>>, <<1, 1>>, <<1, 2>>,
           <<2, 0>>, <<2, 1>>, <<2, 2>>>>

initial_state == [r \in 0..2 |-> [c \in 0..2 |-> EMPTY]]

Count(b, mark) == Cardinality({k \in 1..Len(Cells) : b[Cells[k][1]][Cells[k][2]] = mark})

player(b) == IF Count(b, X) > Count(b, O) THEN O ELSE X

IsEmptyCell(b, cell) == b[cell[1]][cell[2]] = EMPTY

\* The list of the empty cells, in the order of the loops.
ActionsFrom[b \in Boards, k \in Nat] ==
    IF k > Len(Cells) THEN <<>>
    ELSE IF IsEmptyCell(b, Cells[k])
         THEN <<Cells[k]>> \o ActionsFrom[b, k + 1]
         ELSE ActionsFrom[b, k + 1]

actions(b) == ActionsFrom[b, 1]

\* result(board, action): the mark is written into the board given.
result(b, action) ==
    IF b[action[1]][action[2]] = EMPTY
    THEN [b EXCEPT ![action[1]][action[2]] = player(b)]
    ELSE b

\* Lines 69-71: the loop over the rows, from row k on.
WinnerRows[b \in Boards, k \in Nat, w \in STRING] ==
    IF k > 2 THEN w
    ELSE IF b[k][0] = b[k][1] /\ b[k][1] = b[k][2]
         THEN WinnerRows[b, k + 1, b[k][0]]
         ELSE WinnerRows[b, k + 1, w]

\* Lines 73-75: the loop over the columns, from column k on.
WinnerColumns[b \in Boards, k \in Nat, w \in STRING] ==
    IF k > 2 THEN w
    ELSE IF b[0][k] = b[1][k] /\ b[1][k] = b[2][k]
         THEN WinnerColumns[b, k + 1, b[0][k]]
         ELSE WinnerColumns[b, k + 1, w]

\* Lines 77-81: the two diagonals.
WinnerDiagonals(b, w) ==
    IF b[0][0] = b[1][1] /\ b[1][1] = b[2][2] THEN b[0][0]
    ELSE IF b[0][2] = b[1][1] /\ b[1][1] = b[2][0] THEN b[0][2]
    ELSE w

\* Line 83: winner or ''.  EMPTY is None, which is false.
OrNone(w) == IF w = EMPTY THEN "" ELSE w

winner(b) == OrNone(WinnerDiagonals(b, WinnerColumns[b, 0, WinnerRows[b, 0, ""]]))

terminal(b) == winner(b) # "" \/ actions(b) = <<>>

utility(b) ==
    IF winner(b) = X THEN 1
    ELSE IF winner(b) = O THEN -1
    ELSE 0

Max(a, b) == IF a >= b THEN a ELSE b
Min(a, b) == IF a <= b THEN a ELSE b

\* A slip: the mark is left on the board.
RestoreNothing(b, action) == b

\* board[action[0]][action[1]] = EMPTY
Restore(b, action) == [b EXCEPT ![action[1]][action[2]] = EMPTY]

\* minimax_aux(board): [value, board], the value returned and the board left.
\* AuxLoop is the for loop from the k-th action of the list acts on, with the
\* board and the best value as they are when the loop gets there.
MinimaxAux[b \in Boards] ==
    LET AuxLoop[cur \in Boards, acts \in Seq(Seq(Nat)), k \in Nat, best \in Int] ==
            IF k > Len(acts) THEN [value |-> best, board |-> cur]
            ELSE LET sub == MinimaxAux[result(cur, acts[k])]
                 IN  AuxLoop[Restore(sub.board, acts[k]), acts, k + 1,
                             IF player(b) = X THEN Max(best, sub.value)
                             ELSE Min(best, sub.value)]
    IN  IF utility(b) = -1 THEN [value |-> -1, board |-> b]
        ELSE IF utility(b) = 1 THEN [value |-> 1, board |-> b]
        ELSE IF terminal(b) THEN [value |-> 0, board |-> b]
        ELSE IF player(b) = X THEN AuxLoop[b, actions(b), 1, -999]
        ELSE AuxLoop[b, actions(b), 1, 999]

minimax_aux(b) == MinimaxAux[b]

\* Lines 150-170: the for loop of minimax from the k-th action on.
MinimaxLoop[cur \in Boards, aiPlayer \in STRING, acts \in Seq(Seq(Nat)), k \in Nat, bestValueSoFar \in Int, bestMoveSoFar \in Seq(Int)] ==
    IF k > Len(acts) THEN [move |-> bestMoveSoFar, board |-> cur]
    ELSE LET sub == minimax_aux(result(cur, acts[k]))
             better == \/ aiPlayer = X /\ sub.value > bestValueSoFar
                       \/ aiPlayer = O /\ sub.value < bestValueSoFar
         IN  MinimaxLoop[Restore(sub.board, acts[k]), aiPlayer, acts, k + 1,
                         IF better THEN sub.value ELSE bestValueSoFar,
                         IF better THEN acts[k] ELSE bestMoveSoFar]

\* minimax(board): [move, board], the move returned and the board left.
minimax(b) ==
    IF Len(actions(b)) = 9 THEN [move |-> <<0, 0>>, board |-> b]
    ELSE MinimaxLoop[b, player(b), actions(b), 1,
                     IF player(b) = X THEN -999 ELSE 999, <<-1, -1>>]

InitGame ==
    /\ pc = "play"
    /\ outcome = "none"
    /\ board = initial_state
    /\ called = <<>>
    /\ move = <<>>
    /\ corpus = <<>> /\ damping_factor = <<0, 1>> /\ page = "none"
    /\ IdleWalk /\ IdleTransition /\ IdleCrawl

\* A move of either player: while the game is not over, the mark of the
\* player whose turn it is goes into an empty cell.
Play ==
    /\ ~terminal(board)
    /\ \E k \in 1..Len(actions(board)) :
         board' = result(board, actions(board)[k])
    /\ called' = <<>>
    /\ move' = <<>>
    /\ UNCHANGED <<pc, outcome, corpus, damping_factor, page, dist, n, i, ranks,
                   directory, pages>>

\* The player to move asks minimax for a move.
Minimax ==
    /\ ~terminal(board)
    /\ called = <<>>
    /\ called' = board
    /\ \E answer \in {minimax(board)} :
         /\ board' = answer.board
         /\ move' = answer.move
    /\ UNCHANGED <<pc, outcome, corpus, damping_factor, page, dist, n, i, ranks,
                   directory, pages>>

NextGame == Play \/ Minimax

SpecGame == InitGame /\ [][NextGame]_vars


(***************************************************************************)
(* PROPERTIES                                                              *)
(***************************************************************************)

(***************************************************************************)
(* C1.  For every corpus with at least one page, every page of it and      *)
(* every damping factor strictly between 0 and 1, the dictionary           *)
(* transition_model returns has exactly the pages of the corpus as keys,   *)
(* every value is >= 0 and the values sum to exactly 1; for a page without *)
(* links every value is exactly 1/N.                                       *)
(***************************************************************************)
TransitionIsDistribution ==
    (pc = "done" /\ ValidDamping(damping_factor)) =>
        /\ DOMAIN dist = DOMAIN corpus
        /\ \A x \in DOMAIN dist : QLeq(QInt(0), dist[x])
        /\ QSum(dist, DOMAIN dist) = QInt(1)
        /\ corpus[page] = {} =>
              \A x \in DOMAIN dist : dist[x] = Q(1, Cardinality(DOMAIN corpus))

\* transition_model has returned for a page of a three-page corpus that links
\* to one page and not to another, with damping 0.85.
TransitionWitness ==
    /\ pc = "done"
    /\ damping_factor = DAMPING
    /\ Cardinality(DOMAIN corpus) = 3
    /\ Cardinality(corpus[page]) = 1
    /\ \E x \in DOMAIN corpus : dist[x] = Q(3, 60)
    /\ \E x \in DOMAIN corpus : dist[x] = Q(54, 60)

\* The call is one C7 speaks of: N >= 1, damping in (0, 1), n >= 1.
ValidSample ==
    /\ DOMAIN corpus # {}
    /\ ValidDamping(damping_factor)
    /\ n >= 1

RECURSIVE IntSum(_, _)
IntSum(f, S) ==
    IF S = {} THEN 0
    ELSE LET x == CHOOSE y \in S : TRUE
         IN  f[x] + IntSum(f, S \ {x})

\* During the walk the counts total i + 1; at the end the walk has made
\* n - 1 steps and the ranks are a distribution whose counts total n.
SampleCounts ==
    ValidSample =>
        /\ pc = "walk" =>
            /\ DOMAIN ranks = DOMAIN corpus
            /\ page \in DOMAIN corpus
            /\ \A r \in DOMAIN ranks : ranks[r] >= 0
            /\ ranks[page] >= 1
            /\ IntSum(ranks, DOMAIN ranks) = i + 1
            /\ i <= n - 1
        /\ pc = "done" =>
            /\ outcome = "returned"
            /\ i = n - 1
            /\ DOMAIN ranks = DOMAIN corpus
            /\ \A r \in DOMAIN ranks :
                 QLeq(QInt(0), ranks[r]) /\ QLeq(ranks[r], QInt(1))
            /\ QSum(ranks, DOMAIN ranks) = QInt(1)
            /\ IntSum([r \in DOMAIN ranks |-> QMul(ranks[r], QInt(n))[1]],
                      DOMAIN ranks) = n

\* A step of the walk counts one visit, for a page of the corpus that the
\* transition model of the page before gives a positive probability.
SampleStepsFollowModel ==
    (ValidSample /\ pc = "walk" /\ pc' = "walk") =>
        /\ i' = i + 1
        /\ page' \in DOMAIN corpus
        /\ QLess(QInt(0), transition_model(corpus, page, damping_factor)[page'])
        /\ ranks' = [ranks EXCEPT ![page'] = @ + 1]

(***************************************************************************)
(* C7.  In sample_pagerank on a corpus of N >= 1 pages, with a damping     *)
(* factor in (0, 1) and n >= 1: the walk counts one visit for the first    *)
(* page and one for each of the n - 1 steps that follow; every page        *)
(* visited is a page of the corpus that has positive probability in the    *)
(* transition model of the page before it; after k steps the counts total  *)
(* k + 1; the walk ends after exactly n - 1 steps with counts totalling n, *)
(* and the returned ranks are each in [0, 1] and sum to 1.                 *)
(***************************************************************************)
SampleIsDistribution == [](SampleCounts) /\ [][SampleStepsFollowModel]_vars

\* A walk of three samples over a three-page corpus has returned, and it
\* visited one page twice and another once.
SampleWitness ==
    /\ pc = "done"
    /\ outcome = "returned"
    /\ ValidSample
    /\ n = 3
    /\ Cardinality(DOMAIN corpus) = 3
    /\ \E x, y \in DOMAIN ranks : ranks[x] = Q(2, 3) /\ ranks[y] = Q(1, 3)

\* The corpus {A: {B}, B: {A, C}, C: {}} of the scenario.
Scenario == [p \in {"A", "B", "C"} |->
               IF p = "A" THEN {"B"} ELSE IF p = "B" THEN {"A", "C"} ELSE {}]

ScenarioDone == pc = "done" /\ corpus = Scenario /\ damping_factor = DAMPING

(***************************************************************************)
(* C2.  In iterate_pagerank on a corpus of N >= 1 pages with a damping     *)
(* factor in (0, 1), the ranks sum to exactly 1 after the initialisation,  *)
(* after every pass and in the dictionary returned.                        *)
(***************************************************************************)
RankSumIsOne ==
    (pc \in {"loop", "done"} /\ DOMAIN corpus # {}) =>
        /\ DOMAIN ranks.num = DOMAIN corpus
        /\ BigSum(ranks.num, DOMAIN corpus) = ranks.den

\* iterate_pagerank has returned, after at least one adopted pass, on a
\* three-page corpus that has a page without links.
RankSumWitness ==
    /\ pc = "done"
    /\ Cardinality(DOMAIN corpus) = 3
    /\ \E p \in DOMAIN corpus : corpus[p] = {}
    /\ \E p \in DOMAIN corpus : corpus[p] # {}
    /\ ranks.den # BigOfInt[3]

\* abs(r[p] - ranksUpdated(r)[p]) <= 1/1000 at every page p.
WithinTolerance(r) ==
    LET upd == ranksUpdated(corpus, damping_factor, r)
        old == Lifted(corpus, damping_factor, r)
    IN  \A p \in DOMAIN corpus :
            ~BigLess(upd.den, BigTimes(BigAbsDiff(old.num[p], upd.num[p]), 1000))

\* The ranks returned are within the tolerance of their next iterate.
ReturnedIsConverged ==
    (pc = "done" /\ DOMAIN corpus # {}) => WithinTolerance(ranks)

\* A pass returns the ranks it started from when they are within the
\* tolerance of the update, and otherwise adopts the update and goes on.
PassAdoptsOrReturns ==
    (pc = "loop" /\ DOMAIN corpus # {}) =>
        /\ WithinTolerance(ranks) => (pc' = "done" /\ ranks' = ranks)
        /\ ~WithinTolerance(ranks) =>
              (pc' = "loop" /\ ranks' = ranksUpdated(corpus, damping_factor, ranks))

(***************************************************************************)
(* C3.  iterate_pagerank terminates on every corpus of N >= 1 pages with a *)
(* damping factor in (0, 1).  A pass in which some rank moved by more than *)
(* 0.001 adopts the updated ranks, all computed from the ranks before the  *)
(* pass, and the loop goes on; the first pass in which no rank moved by    *)
(* more than 0.001 returns; and the returned ranks differ from their next  *)
(* iterate by at most 0.001 at every page.                                 *)
(***************************************************************************)
IterateConverges ==
    /\ (DOMAIN corpus # {}) => <>(pc = "done")
    /\ [](ReturnedIsConverged)
    /\ [][PassAdoptsOrReturns]_vars

\* iterate_pagerank has returned on a three-page corpus after more than
\* one adopted pass.
ConvergedWitness ==
    /\ pc = "done"
    /\ Cardinality(DOMAIN corpus) = 3
    /\ damping_factor = DAMPING
    /\ Len(ranks.den) > 2
    /\ WithinTolerance(ranks)

(***************************************************************************)
(* C6, as claimed.  On the corpus {A: {B}, B: {A, C}, C: {}} with damping  *)
(* 0.85, the rank iterate_pagerank returns for C is strictly lower than    *)
(* the rank of A and strictly lower than the rank of B.                    *)
(***************************************************************************)
ScenarioCLowest ==
    ScenarioDone =>
        /\ BigLess(ranks.num["C"], ranks.num["A"])
        /\ BigLess(ranks.num["C"], ranks.num["B"])

(***************************************************************************)
(* C6, as amended.  On the corpus {A: {B}, B: {A, C}, C: {}} with damping  *)
(* 0.85, iterate_pagerank terminates, and the rank it returns for C equals *)
(* the rank of A (B links to both, and nothing else links to either) and   *)
(* is strictly lower than the rank of B.                                   *)
(***************************************************************************)
ScenarioCEqualsA ==
    /\ (corpus = Scenario /\ damping_factor = DAMPING) => <>(pc = "done")
    /\ [](ScenarioDone =>
            /\ ranks.num["C"] = ranks.num["A"]
            /\ BigLess(ranks.num["C"], ranks.num["B"]))

\* iterate_pagerank has returned on the scenario, B ranking above C.
ScenarioWitness ==
    /\ ScenarioDone
    /\ outcome = "returned"
    /\ BigLess(ranks.num["C"], ranks.num["B"])

(***************************************************************************)
(* C4.  On a corpus without pages, sample_pagerank (for a positive sample  *)
(* count and a damping factor in (0, 1)) returns an empty ranks dictionary *)
(* and raises nothing.                                                     *)
(***************************************************************************)
EmptyCorpusReturnsEmpty ==
    (pc = "done" /\ DOMAIN corpus = {} /\ n >= 1 /\ ValidDamping(damping_factor)) =>
        (outcome = "returned" /\ ranks = <<>>)

(***************************************************************************)
(* C5.  A call of sample_pagerank on a corpus that has pages, with a       *)
(* sample count <= 0 or with a damping factor outside the open interval    *)
(* (0, 1), ends in an explicit rejection: it neither returns a dictionary  *)
(* nor divides by zero.                                                    *)
(***************************************************************************)
InvalidConfigRejected ==
    (pc = "done" /\ DOMAIN corpus # {} /\ (n <= 0 \/ ~ValidDamping(damping_factor))) =>
        outcome = "rejected"

(***************************************************************************)
(* C8.  The dictionary crawl returns has exactly the HTML files of the     *)
(* directory as keys, and the value of each is the set of its links        *)
(* restricted to the keys other than itself: every linked page is a key,   *)
(* no page links to itself, and a link to anything that is not a page of   *)
(* the directory is dropped without an error.                              *)
(***************************************************************************)
CrawlIsClosed ==
    pc = "done" =>
        /\ outcome = "returned"
        /\ DOMAIN pages = {f \in DOMAIN directory : EndsWithHtml(f)}
        /\ \A f \in DOMAIN pages :
            /\ pages[f] = (directory[f] \cap DOMAIN pages) \ {f}
            /\ pages[f] \subseteq DOMAIN pages
            /\ f \notin pages[f]

\* crawl has returned on a directory of two pages, one of which links to
\* itself, to the other page, to a page that is not there and to a file that
\* is not a page.
CrawlWitness ==
    /\ pc = "done"
    /\ DOMAIN pages = {"1.html", "2.html"}
    /\ directory["1.html"] = {"1.html", "2.html", "3.html", OtherFile}
    /\ pages["1.html"] = {"2.html"}

(***************************************************************************)
(* C9.  On every board reached from initial_state by alternating moves,    *)
(* winner returns the player who holds three marks in a row, a column or a *)
(* diagonal whenever there is such a line, and '' only when there is none; *)
(* so utility is 1 / -1 exactly when X / O holds a line, and terminal is   *)
(* True on every board with a line.                                        *)
(***************************************************************************)
Lines ==
    {{<<r, 0>>, <<r, 1>>, <<r, 2>>} : r \in 0..2} \cup
    {{<<0, c>>, <<1, c>>, <<2, c>>} : c \in 0..2} \cup
    {{<<0, 0>>, <<1, 1>>, <<2, 2>>}, {<<0, 2>>, <<1, 1>>, <<2, 0>>}}

HoldsLine(b, mark) == \E l \in Lines : \A cell \in l : b[cell[1]][cell[2]] = mark

WinnerFindsLine ==
    /\ \A mark \in {X, O} : HoldsLine(board, mark) => winner(board) = mark
    /\ winner(board) = "" => ~HoldsLine(board, X) /\ ~HoldsLine(board, O)
    /\ utility(board) = 1 <=> HoldsLine(board, X)
    /\ utility(board) = -1 <=> HoldsLine(board, O)
    /\ (HoldsLine(board, X) \/ HoldsLine(board, O)) => terminal(board)

(***************************************************************************)
(* C10.  minimax and minimax_aux leave the board as they found it: every   *)
(* mark result writes during the search is removed again, so on every      *)
(* board reached that is not terminal the board after minimax returns      *)
(* equals the board at the call, and the move returned is an empty cell of *)
(* that board.                                                             *)
(***************************************************************************)
MinimaxRestoresBoard ==
    called # <<>> =>
        /\ board = called
        /\ \E k \in 1..Len(actions(called)) : move = actions(called)[k]
        /\ minimax_aux(called).board = called

\* minimax has searched a board of eight empty cells and returned a move.
MinimaxWitness ==
    /\ called # <<>>
    /\ Len(actions(called)) = 8
    /\ move # <<0, 0>>
    /\ board = called

=============================================================================
